---- MODULE Spec2Model ----
(***************************************************************************)
(* CouncilOS blueprint engine: one run of a blueprint, in auto-pilot or   *)
(* in God Mode (interrupt before every node), with the REST handlers that *)
(* approve, modify or reject a paused run and the background tasks that   *)
(* resume it.                                                             *)
(*                                                                         *)
(* Scores are in tenths (80 stands for 8.0).  Texts are abstracted to     *)
(* tags; a system prompt is the set of word stems it contains.            *)
(***************************************************************************)
EXTENDS Integers, Sequences, FiniteSets, Bags, TLC

(* ------------------------------ bounds -------------------------------- *)

\* resume tasks that may be in flight at once
MaxTasks == 2
\* node steps of one God Mode run
MaxGodSteps == 2
\* requests of one run that carry a modified_state
MaxModifies == 1
\* node steps of one auto-pilot run
MaxAutoSteps == 12
\* tool requests one model response carries
MaxToolCalls == 2
\* calls of the RunStore
MaxStoreCalls == 3
\* declared nodes and edges of a generated linear blueprint
MaxNodes == 2
MaxEdges == 2
\* conditional edges leaving the routed node of a generated blueprint
MaxConditional == 2

(* ------------------------- program constants -------------------------- *)

MAX_ITERATIONS == 5
\* 8.0, in tenths
APPROVAL_THRESHOLD == 80
\* Python's None in critic_score
NoScore == -1

RunId == "r1"
Topic == "topic"
END == "__end__"
START == "__start__"
None == "None"

CRITIC_KEYWORDS == {"critic", "kritik", "bewert", "evaluat", "review", "score"}

MODEL_MAP == {"claude-3-5-sonnet", "gpt-4o"}

(* ----------------------------- blueprints ----------------------------- *)

Node(id, prompt, model) == [id |-> id, systemPrompt |-> prompt, model |-> model]

Edge(s, t, ty, c) == [source |-> s, target |-> t, type |-> ty, condition |-> c]

SIMPLE_LINEAR_BLUEPRINT ==
    [nodes |-> << Node("node-1", {"professional", "writer"}, "claude-3-5-sonnet"),
                  Node("node-2", {"professional", "editor", "polish"}, "claude-3-5-sonnet") >>,
     edges |-> << Edge("node-1", "node-2", "linear", "") >>]

CYCLIC_BLUEPRINT ==
    [nodes |-> << Node("master", {"master", "writer"}, "claude-3-5-sonnet"),
                  Node("critic", {"critic", "evaluat", "score", "draft"}, "claude-3-5-sonnet"),
                  Node("writer", {"polish", "approved", "drafts"}, "claude-3-5-sonnet") >>,
     edges |-> << Edge("master", "critic", "linear", ""),
                  Edge("critic", "master", "conditional", "rework"),
                  Edge("critic", "writer", "conditional", "approve") >>]

\* an evaluator first, routing to a node whose model _MODEL_MAP lacks
\* (rework) or to a final node (approve)
ROUTED_BLUEPRINT ==
    [nodes |-> << Node("publisher", {"publish", "final"}, "gpt-4o"),
                  Node("reviewer", {"review", "text"}, "gpt-4o"),
                  Node("fixer", {"fix", "text"}, "nonexistent-model") >>,
     edges |-> << Edge("reviewer", "fixer", "conditional", "rework"),
                  Edge("reviewer", "publisher", "conditional", "approve") >>]

EMPTY_BLUEPRINT == [nodes |-> << >>, edges |-> << >>]

Blueprints == {SIMPLE_LINEAR_BLUEPRINT, CYCLIC_BLUEPRINT, ROUTED_BLUEPRINT,
               EMPTY_BLUEPRINT}

(* --------------------------- sequence helpers -------------------------- *)

Range(s) == {s[i] : i \in DOMAIN s}

RECURSIVE SelectIdx(_, _, _)
\* the first index i >= from of s with s[i] \in S, or 0
SelectIdx(s, S, from) ==
    IF from > Len(s) THEN 0
    ELSE IF s[from] \in S THEN from
    ELSE SelectIdx(s, S, from + 1)

(* --------------------------- topology inference ------------------------ *)

NodeIds(blueprint) == {n.id : n \in Range(blueprint.nodes)}

NodeById(blueprint, nid) == CHOOSE n \in Range(blueprint.nodes) : n.id = nid

\* variant: the last declared node is taken as the entry
LastDeclaredNodeId(blueprint) == blueprint.nodes[Len(blueprint.nodes)].id

\* variant: the first declared node is taken as the entry
FirstDeclaredNodeId(blueprint) == blueprint.nodes[1].id

\* entry_candidates[0]: the first declared node without an incoming edge,
\* else (pure cycle) the first declared node
EntryNodeId(blueprint) ==
    LET targets == {e.target : e \in Range(blueprint.edges)}
        noIncoming == {n \in Range(blueprint.nodes) : n.id \notin targets}
        i == SelectIdx(blueprint.nodes, noIncoming, 1)
    IN  IF i = 0 THEN blueprint.nodes[1].id ELSE blueprint.nodes[i].id

\* _build_graph_with_checkpointer repeats the inference for a supervised
\* run: the declared nodes that are no edge's target, in declaration order,
\* replaced by the first declared node when there is none; the first is taken
EntryNodeIdCheckpointer(blueprint) ==
    LET targets == {blueprint.edges[j].target : j \in DOMAIN blueprint.edges}
        entry_candidates ==
            SelectSeq([i \in DOMAIN blueprint.nodes |-> blueprint.nodes[i].id],
                      LAMBDA nid : nid \notin targets)
    IN  IF entry_candidates = << >> THEN blueprint.nodes[1].id
        ELSE entry_candidates[1]

TerminalNodes(blueprint) ==
    LET sources == {e.source : e \in Range(blueprint.edges)}
    IN  {nid \in NodeIds(blueprint) : nid \notin sources}

\* edges_by_source[src]["conditional"], in declaration order
ConditionalEdges(blueprint, src) ==
    SelectSeq(blueprint.edges, LAMBDA e : e.source = src /\ e.type = "conditional")

\* edges_by_source[src]["linear"], in declaration order
LinearEdges(blueprint, src) ==
    SelectSeq(blueprint.edges, LAMBDA e : e.source = src /\ e.type # "conditional")

\* the edges the builders hand to the graph: for a source with conditional
\* edges every conditional target and the first linear target (route_map),
\* otherwise the first linear target only; later linear edges are dropped
AddedEdges(blueprint) ==
    UNION {LET linear == LinearEdges(blueprint, src)
               conditional == ConditionalEdges(blueprint, src)
               first_linear == IF linear # << >>
                               THEN {[source |-> src, target |-> linear[1].target]}
                               ELSE {}
           IN  IF conditional # << >>
               THEN {[source |-> src, target |-> conditional[i].target] :
                        i \in DOMAIN conditional} \cup first_linear
               ELSE first_linear :
           src \in {e.source : e \in Range(blueprint.edges)}}

\* graph.compile() validates what was added: an edge that starts or ends at
\* a node never registered raises ValueError
UnknownNodeInGraph(blueprint) ==
    \E e \in AddedEdges(blueprint) :
        e.source \notin NodeIds(blueprint) \/ e.target \notin NodeIds(blueprint)

\* a registered node that is neither the entry point nor the end of an added
\* edge: whether compile() accepts it depends on the installed graph library
NodeWithoutWayIn(blueprint, entry) ==
    \E nid \in NodeIds(blueprint) :
        nid # entry /\ nid \notin {e.target : e \in AddedEdges(blueprint)}

is_critic_like(system_prompt) == system_prompt \cap CRITIC_KEYWORDS # {}

(* -------------------------------- router ------------------------------- *)

\* condition_map = {e["condition"]: e["target"] ...}: a later edge with the
\* same condition replaces an earlier one
RECURSIVE ConditionMapLookup(_, _, _)
ConditionMapLookup(conditional_edges, decision, i) ==
    IF i = 0 THEN None
    ELSE IF conditional_edges[i].condition = decision THEN conditional_edges[i].target
    ELSE ConditionMapLookup(conditional_edges, decision, i - 1)

\* variant: without a matching condition the first conditional target is
\* taken, the linear edge is not consulted
router_without_linear_fallback(conditional_edges, linear_target, state) ==
    LET decision == state.route_decision
        hit == ConditionMapLookup(conditional_edges, decision, Len(conditional_edges))
    IN  IF hit # None THEN hit
        ELSE IF conditional_edges # << >> THEN conditional_edges[1].target
        ELSE END

router(conditional_edges, linear_target, state) ==
    LET decision == state.route_decision
        hit == ConditionMapLookup(conditional_edges, decision, Len(conditional_edges))
    IN  IF hit # None THEN hit
        ELSE IF linear_target # None THEN linear_target
        ELSE IF conditional_edges # << >> THEN conditional_edges[1].target
        ELSE END

\* variant: only conditional edges are followed, a node with linear edges
\* alone is wired to END
NextNodeWithoutLinear(blueprint, source_id, state) ==
    LET linear == LinearEdges(blueprint, source_id)
        conditional == ConditionalEdges(blueprint, source_id)
        linear_target == IF linear # << >> THEN linear[1].target ELSE None
    IN  IF source_id = START THEN EntryNodeIdCheckpointer(blueprint)
        ELSE IF conditional # << >> THEN router(conditional, linear_target, state)
        ELSE END

\* the node the compiled graph runs after source_id, given the state that
\* holds source_id's update
NextNode(blueprint, source_id, state) ==
    LET linear == LinearEdges(blueprint, source_id)
        conditional == ConditionalEdges(blueprint, source_id)
        linear_target == IF linear # << >> THEN linear[1].target ELSE None
    IN  IF source_id = START THEN EntryNodeIdCheckpointer(blueprint)
        ELSE IF conditional # << >> THEN router(conditional, linear_target, state)
        ELSE IF linear # << >> THEN linear[1].target
        ELSE END

\* the checkpoint's `next` tuple
NextOf(blueprint, source_id, state) ==
    LET n == NextNode(blueprint, source_id, state)
    IN  IF n = END THEN << >> ELSE << n >>

(* --------------------------- execution context ------------------------- *)

AppendFields == {"feedback_history", "messages"}

initial_state ==
    [input_topic |-> Topic, current_draft |-> "", feedback_history |-> << >>,
     route_decision |-> "", messages |-> << >>, iteration_count |-> 0,
     critic_score |-> NoScore, run_id |-> RunId, active_node |-> ""]

\* CouncilState's reducers: operator.add on feedback_history and messages,
\* overwrite on every other field; a field the update does not name is kept
ApplyUpdate(state, update) ==
    [k \in DOMAIN state |->
        IF k \in DOMAIN update
        THEN IF k \in AppendFields THEN state[k] \o update[k] ELSE update[k]
        ELSE state[k]]

(* ------------------------------ node steps ----------------------------- *)

\* what the model answers to an evaluator: the number after "SCORE:" (tenths;
\* << >> when the text has none) and whether a "FEEDBACK:" section is there
CriticResponses ==
    {[score |-> << 70 >>, feedback |-> TRUE, text |-> "SCORE: 7 ... FEEDBACK: ..."],
     [score |-> << 90 >>, feedback |-> TRUE, text |-> "SCORE: 9 ... FEEDBACK: ..."],
     [score |-> << >>, feedback |-> FALSE, text |-> "unstructured"]}

AgentResponses == {[content |-> "draft"]}

Msg(role, nid, text) == [role |-> role, node |-> nid, text |-> text]

\* variant: every model name is resolved
get_llm_never_raises(model_name) == FALSE

\* _get_llm raises ValueError for a name outside _MODEL_MAP
get_llm_raises(model_name) == model_name \notin MODEL_MAP

\* which of the three user prompts agent_node builds
AgentPrompt(state) ==
    IF state.current_draft = "" THEN "work-on-topic"
    ELSE IF state.feedback_history # << >> THEN "improve-with-feedback"
    ELSE "review-and-improve"

\* variant: a generic step leaves the iteration count alone
agent_node_without_count(node, state, response) ==
    IF get_llm_raises(node.model)
    THEN [raised |-> TRUE, update |-> << >>, llm_calls |-> 0]
    ELSE [raised |-> FALSE,
          update |-> [current_draft |-> response.content,
                      messages |-> << Msg("system", node.id, "persona"),
                                      Msg("human", node.id, AgentPrompt(state)),
                                      Msg("ai", node.id, response.content) >>,
                      active_node |-> node.id],
          llm_calls |-> 1]

\* a step's outcome: raised, the partial update it returns, the model calls made
agent_node(node, state, response) ==
    IF get_llm_raises(node.model)
    THEN [raised |-> TRUE, update |-> << >>, llm_calls |-> 0]
    ELSE [raised |-> FALSE,
          update |-> [current_draft |-> response.content,
                      messages |-> << Msg("system", node.id, "persona"),
                                      Msg("human", node.id, AgentPrompt(state)),
                                      Msg("ai", node.id, response.content) >>,
                      active_node |-> node.id,
                      iteration_count |-> state.iteration_count + 1],
          llm_calls |-> 1]

Min(a, b) == IF a < b THEN a ELSE b

Max(a, b) == IF a > b THEN a ELSE b

\* variant: the score is taken as written, without the clamp
ParseScoreUnclamped(response) ==
    IF response.score = << >> \/ response.score[1] < 0 THEN 0 ELSE response.score[1]

\* variant: a response without a score counts as a full score
ParseScoreMissingIsFull(response) ==
    IF response.score = << >> \/ response.score[1] < 0
    THEN 100 ELSE Max(0, Min(100, response.score[1]))

\* score = max(0.0, min(10.0, score)), 0.0 without a SCORE match; the
\* pattern \d+(?:\.\d+)? takes no sign, so a negative number is no match
ParseScore(response) ==
    IF response.score = << >> \/ response.score[1] < 0
    THEN 0 ELSE Max(0, Min(100, response.score[1]))

\* variant: the valve opens one iteration late
SafetyValveAbove(state) == state.iteration_count > MAX_ITERATIONS

\* variant: the valve never opens
SafetyValveNever(state) == FALSE

\* the safety valve's test
SafetyValve(state) == state.iteration_count >= MAX_ITERATIONS

\* variant: the evaluator records its feedback whatever the verdict
feedback_on_every_verdict(result, route_decision, entry) ==
    result @@ [feedback_history |-> << entry >>]

\* critic_node's last statement: feedback is recorded only for a rework
feedback_on_rework(result, route_decision, entry) ==
    IF route_decision = "rework"
    THEN result @@ [feedback_history |-> << entry >>]
    ELSE result

critic_node(node, state, response) ==
    IF SafetyValve(state)
    THEN [raised |-> FALSE,
          update |-> [route_decision |-> "approve",
                      critic_score |-> APPROVAL_THRESHOLD,
                      feedback_history |-> << [kind |-> "auto-approved", score |-> NoScore] >>,
                      messages |-> << >>,
                      active_node |-> node.id],
          llm_calls |-> 0]
    ELSE IF get_llm_raises(node.model)
    THEN [raised |-> TRUE, update |-> << >>, llm_calls |-> 0]
    ELSE LET score == ParseScore(response)
             route_decision == IF score >= APPROVAL_THRESHOLD THEN "approve" ELSE "rework"
             feedback == IF response.feedback THEN "feedback" ELSE "raw"
             result == [critic_score |-> score,
                        route_decision |-> route_decision,
                        messages |-> << Msg("system", node.id, "persona+format"),
                                        Msg("human", node.id, "evaluate"),
                                        Msg("ai", node.id, response.text) >>,
                        active_node |-> node.id]
         IN  [raised |-> FALSE,
              update |-> feedback_on_rework(result, route_decision,
                                            [kind |-> feedback, score |-> score]),
              llm_calls |-> 1]

\* the hard-coded council's critic (agents/critic_agent.py): the same valve,
\* then a fixed model; _parse_critic_response clamps the score as above
critic_agent_node(state, response) ==
    IF state.iteration_count >= MAX_ITERATIONS
    THEN [raised |-> FALSE,
          update |-> [route_decision |-> "approve",
                      critic_score |-> APPROVAL_THRESHOLD,
                      feedback_history |-> << [kind |-> "auto-approved", score |-> NoScore] >>,
                      messages |-> << >>,
                      active_node |-> "critic_agent"],
          llm_calls |-> 0]
    ELSE LET score == ParseScore(response)
             route_decision == IF score >= APPROVAL_THRESHOLD THEN "approve" ELSE "rework"
             feedback == IF response.feedback THEN "feedback" ELSE "raw"
             result == [critic_score |-> score,
                        route_decision |-> route_decision,
                        messages |-> << Msg("system", "critic_agent", "persona+format"),
                                        Msg("human", "critic_agent", "evaluate"),
                                        Msg("ai", "critic_agent", response.text) >>,
                        active_node |-> "critic_agent"]
         IN  [raised |-> FALSE,
              update |-> IF route_decision = "rework"
                         THEN result @@ [feedback_history |->
                                            << [kind |-> feedback, score |-> score] >>]
                         ELSE result,
              llm_calls |-> 1]

\* the hard-coded council's master (agents/master_agent.py)
master_agent_node(state, response) ==
    [raised |-> FALSE,
     update |-> [current_draft |-> response.content,
                 messages |-> << Msg("system", "master_agent", "persona"),
                                 Msg("human", "master_agent",
                                     IF state.feedback_history = << >>
                                     THEN "write" ELSE "revise-with-feedback"),
                                 Msg("ai", "master_agent", response.content) >>,
                 active_node |-> "master_agent",
                 iteration_count |-> state.iteration_count + 1],
     llm_calls |-> 1]

\* the hard-coded council's writer (agents/writer_agent.py)
writer_agent_node(state, response) ==
    [raised |-> FALSE,
     update |-> [current_draft |-> response.content,
                 messages |-> << Msg("system", "writer_agent", "persona"),
                                 Msg("human", "writer_agent", "polish"),
                                 Msg("ai", "writer_agent", response.content) >>,
                 active_node |-> "writer_agent",
                 route_decision |-> "done"],
     llm_calls |-> 1]

\* variant: the critic's verdict is ignored, the draft always goes back
route_always_rework(state) == "master_agent"

\* graph_builder.route_after_critic
route_after_critic(state) ==
    IF state.route_decision = "approve" THEN "writer_agent" ELSE "master_agent"

\* the node functions build_council_graph registers
council_node_fn(node_id, state, response) ==
    CASE node_id = "master_agent" -> master_agent_node(state, response)
      [] node_id = "critic_agent" -> critic_agent_node(state, response)
      [] node_id = "writer_agent" -> writer_agent_node(state, response)

\* the edges build_council_graph adds
council_next(node_id, state) ==
    CASE node_id = "master_agent" -> "critic_agent"
      [] node_id = "critic_agent" -> route_after_critic(state)
      [] node_id = "writer_agent" -> END

IsCritic(node) == is_critic_like(node.systemPrompt)

\* the responses a node's model call may give
ResponsesFor(node) == IF IsCritic(node) THEN CriticResponses ELSE AgentResponses

\* the node function build_graph registers for `node`
node_fn(node, state, response) ==
    IF IsCritic(node) THEN critic_node(node, state, response)
    ELSE agent_node(node, state, response)

(* -------------------------------- state -------------------------------- *)

VARIABLES
    blueprint,   \* the blueprint the run was started from
    god_mode,    \* the request's god_mode flag
    run_store,   \* the run's record in run_store: status, active_node, error
    sessions,    \* the run ids held in _god_mode_sessions
    checkpoint,  \* the MemorySaver's latest checkpoint of the run's thread
    exec,        \* the background task _execute_blueprint_run and its invoke
    tasks,       \* the bag of _resume_god_mode_task background tasks in flight
    trace,       \* history: the node steps executed, in commit order
    rejected     \* history: a reject was accepted

vars == << blueprint, god_mode, run_store, sessions, checkpoint, exec, tasks,
           trace, rejected >>

NoCheckpoint == [id |-> 0, values |-> initial_state, next |-> << >>, last |-> None]

\* a background task and the invoke it awaits.  `seen` is the checkpoint the
\* approval request found paused, `loaded` the id of the checkpoint the step
\* in flight started from, `steps` the node steps this invocation has run.
NewThread ==
    [pc |-> "queued", action |-> None, modified_state |-> << >>, seen |-> NoCheckpoint,
     loaded |-> 0, node |-> None, values |-> initial_state, steps |-> 0]

\* variant: only the entry node interrupts
interrupt_entry_only(bp) == {EntryNodeId(bp)}

\* interrupt_before: all_node_ids = [n["id"] for n in nodes_list]
interrupt_node_ids(bp) == NodeIds(bp)

InterruptBefore == IF god_mode THEN interrupt_node_ids(blueprint) ELSE {}

StepBound == IF god_mode THEN MaxGodSteps ELSE MaxAutoSteps

Init ==
    /\ blueprint \in Blueprints
    /\ god_mode \in BOOLEAN
    \* run_store.create, then the background task is scheduled
    /\ run_store = [status |-> "pending", active_node |-> None, error |-> None]
    /\ sessions = {}
    /\ checkpoint = NoCheckpoint
    /\ exec = NewThread
    /\ tasks = EmptyBag
    /\ trace = << >>
    /\ rejected = FALSE

\* run_store.update: only the named fields change
StoreUpdate(store, updates) ==
    [k \in DOMAIN store |-> IF k \in DOMAIN updates THEN updates[k] ELSE store[k]]

\* found = FALSE stands for the None returned for a run id without a session
get_god_mode_state(run_id) ==
    IF run_id \notin sessions
    THEN [found |-> FALSE, run_id |-> run_id, paused |-> FALSE,
          next_nodes |-> << >>, current_state |-> initial_state]
    ELSE [found |-> TRUE, run_id |-> run_id,
          paused |-> checkpoint.next # << >>,
          next_nodes |-> checkpoint.next,
          current_state |-> checkpoint.values]

\* compiled_graph.update_state(thread_config, values): the values are written
\* as an update of the node that ran last (the reducers apply) and that node's
\* outgoing edges are evaluated again on the result
update_state(ckpt, values) ==
    LET merged == ApplyUpdate(ckpt.values, values)
    IN  [id |-> ckpt.id + 1, values |-> merged,
         next |-> NextOf(blueprint, ckpt.last, merged), last |-> ckpt.last]

\* variant: the session is kept
KeepSession(sess, run_id) == sess

\* _god_mode_sessions.pop(run_id, None)
PopSession(sess, run_id) == sess \ {run_id}

\* the bag `tasks` with one copy of `old` replaced by `new`
Replace(old, new) == (tasks (-) SetToBag({old})) (+) SetToBag({new})

(* ------------------------------ invocation ----------------------------- *)

\* compiled_graph.invoke(initial_state, ...) starts: the input is written (in
\* God Mode as the thread's first checkpoint) and the entry node is pending;
\* invoke returns at once when the entry node is in interrupt_before
InvokeInitial ==
    /\ exec.pc = "loading"
    /\ LET entry == IF god_mode THEN EntryNodeIdCheckpointer(blueprint)
                    ELSE EntryNodeId(blueprint)
       IN  /\ checkpoint' = IF god_mode
                            THEN [id |-> 1, values |-> initial_state,
                                  next |-> << entry >>, last |-> START]
                            ELSE checkpoint
           /\ exec' = [exec EXCEPT !.pc = IF entry \in InterruptBefore
                                          THEN "returned" ELSE "executing",
                                   !.node = entry,
                                   !.loaded = IF god_mode THEN 1 ELSE 0,
                                   !.values = initial_state]
    /\ UNCHANGED << blueprint, god_mode, run_store, sessions, tasks, trace, rejected >>

\* an invoke that has returned or raised hands back only the final values
Returned(thread) ==
    IF thread.pc \in {"returned", "raised"}
    THEN [NewThread EXCEPT !.pc = thread.pc, !.values = thread.values,
                           !.steps = thread.steps]
    ELSE thread

\* a resumed invoke(None, ...) starts in its executor thread: it reads the
\* thread's latest checkpoint and runs the pending node, if there is one
InvokeResume ==
    /\ \E task \in BagToSet(tasks) :
         /\ task.pc = "loading"
         /\ tasks' = Replace(task,
                        IF checkpoint.next = << >>
                        THEN Returned([task EXCEPT !.pc = "returned",
                                                   !.values = checkpoint.values])
                        ELSE [task EXCEPT !.pc = "executing",
                                          !.node = checkpoint.next[1],
                                          !.loaded = checkpoint.id,
                                          !.values = checkpoint.values])
    /\ UNCHANGED << blueprint, god_mode, run_store, sessions, checkpoint, exec,
                    trace, rejected >>

\* what a step leaves in the history
TraceEntry(thread, node, result) ==
    [node |-> node.id, critic |-> IsCritic(node), loaded |-> thread.loaded,
     iteration_count |-> thread.values.iteration_count,
     update |-> result.update, llm_calls |-> result.llm_calls]

\* one superstep of invoke: the pending node's function runs on the values the
\* thread holds; its update is merged, the next node is resolved and (with a
\* checkpointer) the result is saved.  A raising step saves nothing.  The loop
\* stops at END or before a node in interrupt_before.
Superstep(thread, response) ==
    LET node == NodeById(blueprint, thread.node)
        result == node_fn(node, thread.values, response)
        values == ApplyUpdate(thread.values, result.update)
        next == NextOf(blueprint, node.id, values)
        saved == [id |-> checkpoint.id + 1, values |-> values,
                  next |-> next, last |-> node.id]
    IN  IF result.raised
        THEN [thread |-> [thread EXCEPT !.pc = "raised"],
              checkpoint |-> checkpoint, trace |-> trace]
        ELSE [thread |-> [thread EXCEPT
                            !.pc = IF next = << >> \/ next[1] \in InterruptBefore
                                   THEN "returned" ELSE "executing",
                            !.node = IF next = << >> THEN None ELSE next[1],
                            !.loaded = IF god_mode THEN saved.id ELSE 0,
                            !.values = values,
                            !.steps = @ + 1],
              checkpoint |-> IF god_mode THEN saved ELSE checkpoint,
              trace |-> Append(trace, TraceEntry(thread, node, result))]

\* a superstep of the run's first invoke
ExecStep ==
    /\ exec.pc = "executing"
    /\ Len(trace) < StepBound
    /\ \E response \in ResponsesFor(NodeById(blueprint, exec.node)) :
         LET after == Superstep(exec, response)
         IN  /\ exec' = after.thread
             /\ checkpoint' = after.checkpoint
             /\ trace' = after.trace
    /\ UNCHANGED << blueprint, god_mode, run_store, sessions, tasks, rejected >>

\* a superstep of a resumed invoke
TaskStep ==
    /\ Len(trace) < StepBound
    /\ \E task \in BagToSet(tasks) :
         /\ task.pc = "executing"
         /\ \E response \in ResponsesFor(NodeById(blueprint, task.node)) :
              LET after == Superstep(task, response)
              IN  /\ tasks' = Replace(task, Returned(after.thread))
                  /\ checkpoint' = after.checkpoint
                  /\ trace' = after.trace
    /\ UNCHANGED << blueprint, god_mode, run_store, sessions, exec, rejected >>

(* --------------------------- starting the run -------------------------- *)

\* _execute_blueprint_run starts: the status becomes running
ExecBegin ==
    /\ exec.pc = "queued"
    /\ run_store' = StoreUpdate(run_store, [status |-> "running"])
    /\ exec' = [exec EXCEPT !.pc = "compiling"]
    /\ UNCHANGED << blueprint, god_mode, sessions, checkpoint, tasks, trace, rejected >>

\* whether graph.compile() raises for a blueprint with nodes
CompileOutcomes(bp, supervised) ==
    LET entry == IF supervised THEN EntryNodeIdCheckpointer(bp) ELSE EntryNodeId(bp)
    IN  IF UnknownNodeInGraph(bp) THEN {TRUE}
        ELSE IF NodeWithoutWayIn(bp, entry) THEN {TRUE, FALSE}
        ELSE {FALSE}

\* variant: the builders lack the test for an empty node list, the graph
\* without nodes is handed on to invoke
CompileWithoutEmptyTest ==
    /\ exec.pc = "compiling"
    /\ exec' = [exec EXCEPT !.pc = "loading"]
    /\ UNCHANGED << blueprint, god_mode, run_store, sessions, checkpoint, tasks,
                    trace, rejected >>

\* run_blueprint_council_async up to its await: the graph is compiled and
\* invoke is handed to the executor; an empty blueprint and a graph that
\* compile() refuses raise ValueError, which the task's except clause records
\* as status failed
Compile ==
    /\ exec.pc = "compiling"
    /\ IF blueprint.nodes = << >>
       THEN /\ run_store' = StoreUpdate(run_store,
                                [status |-> "failed", error |-> "Blueprint has no nodes."])
            /\ exec' = [exec EXCEPT !.pc = "done"]
       ELSE \E raises \in CompileOutcomes(blueprint, god_mode) :
                IF raises
                THEN /\ run_store' = StoreUpdate(run_store,
                                         [status |-> "failed", error |-> "invalid graph"])
                     /\ exec' = [exec EXCEPT !.pc = "done"]
                ELSE /\ exec' = [exec EXCEPT !.pc = "loading"]
                     /\ UNCHANGED run_store
    /\ UNCHANGED << blueprint, god_mode, sessions, checkpoint, tasks, trace, rejected >>

\* variant: the task records paused without asking the state query
StatusAfterWithoutQuery(run_id, sess, ckpt) ==
    [status |-> "paused",
     active_node |-> IF ckpt.next # << >> THEN ckpt.next[1] ELSE None]

\* the status a task records once its invoke has returned
StatusAfter(run_id, sess, ckpt) ==
    IF run_id \in sess /\ ckpt.next # << >>
    THEN [status |-> "paused", active_node |-> ckpt.next[1]]
    ELSE [status |-> "completed", active_node |-> "done"]

\* _execute_blueprint_run after the await: in God Mode the session is stored,
\* then the status becomes paused (a pending node) or completed; an exception
\* of the run becomes status failed
ExecFinish ==
    /\ exec.pc \in {"returned", "raised"}
    /\ IF exec.pc = "raised"
       THEN /\ run_store' = StoreUpdate(run_store,
                                [status |-> "failed", error |-> "step raised"])
            /\ UNCHANGED sessions
       ELSE /\ sessions' = IF god_mode THEN sessions \cup {RunId} ELSE sessions
            /\ run_store' = StoreUpdate(run_store,
                                IF god_mode THEN StatusAfter(RunId, sessions', checkpoint)
                                ELSE [status |-> "completed", active_node |-> "done"])
    /\ exec' = [exec EXCEPT !.pc = "done"]
    /\ UNCHANGED << blueprint, god_mode, checkpoint, tasks, trace, rejected >>

(* ------------------------ the hard-coded council ----------------------- *)

\* _execute_run starts: the status becomes running, run_council_async builds
\* the graph and hands graph.invoke(initial_state) to the executor, where the
\* entry point master_agent is pending
CouncilBegin ==
    /\ exec.pc = "council_queued"
    /\ run_store' = StoreUpdate(run_store, [status |-> "running"])
    /\ exec' = [exec EXCEPT !.pc = "council_executing", !.node = "master_agent",
                            !.values = initial_state]
    /\ UNCHANGED << blueprint, god_mode, sessions, checkpoint, tasks, trace, rejected >>

\* one superstep of the council graph's invoke
CouncilStep ==
    /\ exec.pc = "council_executing"
    /\ Len(trace) < MaxAutoSteps
    /\ \E response \in (IF exec.node = "critic_agent"
                         THEN CriticResponses ELSE AgentResponses) :
         LET result == council_node_fn(exec.node, exec.values, response)
             values == ApplyUpdate(exec.values, result.update)
             next == council_next(exec.node, values)
         IN  /\ exec' = [exec EXCEPT
                            !.pc = IF next = END THEN "council_returned"
                                   ELSE "council_executing",
                            !.node = IF next = END THEN None ELSE next,
                            !.values = values,
                            !.steps = @ + 1]
             /\ trace' = Append(trace,
                            [node |-> exec.node, critic |-> exec.node = "critic_agent",
                             loaded |-> 0,
                             iteration_count |-> exec.values.iteration_count,
                             update |-> result.update, llm_calls |-> result.llm_calls])
    /\ UNCHANGED << blueprint, god_mode, run_store, sessions, checkpoint, tasks, rejected >>

\* _execute_run after the await: the status becomes completed
CouncilFinish ==
    /\ exec.pc = "council_returned"
    /\ run_store' = StoreUpdate(run_store, [status |-> "completed", active_node |-> "done"])
    /\ exec' = [exec EXCEPT !.pc = "done"]
    /\ UNCHANGED << blueprint, god_mode, sessions, checkpoint, tasks, trace, rejected >>

(* ------------------------ approve, modify, reject ---------------------- *)

RunIds == {RunId, "nonexistent-run-id"}

\* the partial state a modify request carries here
ModifiedState ==
    [current_draft |-> "edited",
     feedback_history |-> << [kind |-> "human", score |-> NoScore] >>,
     route_decision |-> "approve", iteration_count |-> 0,
     input_topic |-> "changed"]

\* GodModeApprovalRequest: action and modified_state are independent fields;
\* << >> stands for no modified_state
Requests ==
    {[action |-> "reject", modified_state |-> << >>],
     [action |-> "approve", modified_state |-> << >>],
     [action |-> "approve", modified_state |-> [route_decision |-> "done"]],
     [action |-> "modify", modified_state |-> ModifiedState]}

\* the update_state calls made so far and those still queued
ModifiesUsed ==
    (checkpoint.id - 1 - Len(trace))
    + Cardinality({t \in BagToSet(tasks) :
                      t.pc = "queued" /\ DOMAIN t.modified_state # {}})

\* POST /councils/run/{run_id}/approve.  Refused with 400 unless the state
\* query finds the run paused.  reject pops the session and marks the run
\* failed; anything else schedules _resume_god_mode_task and answers "running".
approve_god_mode(run_id) ==
    LET god_state == get_god_mode_state(run_id)
    IN  IF ~god_state.found \/ ~god_state.paused
        THEN UNCHANGED << run_store, sessions, tasks, rejected >>
        ELSE \E request \in Requests :
               IF request.action = "reject"
               THEN /\ sessions' = PopSession(sessions, run_id)
                    /\ run_store' = StoreUpdate(run_store,
                          [status |-> "failed", error |-> "Rejected by user in God Mode."])
                    /\ rejected' = TRUE
                    /\ UNCHANGED tasks
               ELSE /\ BagCardinality(tasks) < MaxTasks
                    /\ Len(trace) + BagCardinality(tasks) < MaxGodSteps
                    /\ DOMAIN request.modified_state # {} => ModifiesUsed < MaxModifies
                    /\ tasks' = tasks (+) SetToBag({[NewThread EXCEPT
                                           !.action = request.action,
                                           !.modified_state = request.modified_state,
                                           !.seen = checkpoint]})
                    /\ UNCHANGED << run_store, sessions, rejected >>

Approve ==
    /\ \E run_id \in RunIds : approve_god_mode(run_id)
    /\ UNCHANGED << blueprint, god_mode, checkpoint, exec, trace >>

\* _resume_god_mode_task up to the await in resume_god_mode: the status
\* becomes running; without a session resume_god_mode returns None at once
\* and the task marks the run failed before any other coroutine runs; with a
\* session a non-empty modified_state is written with update_state, whatever
\* the action is, and invoke(None, ...) is handed to the executor
ResumeBegin ==
    /\ \E task \in BagToSet(tasks) :
         /\ task.pc = "queued"
         /\ IF RunId \notin sessions
            THEN /\ run_store' = StoreUpdate(StoreUpdate(run_store, [status |-> "running"]),
                        [status |-> "failed", error |-> "God Mode session not found."])
                 /\ tasks' = tasks (-) SetToBag({task})
                 /\ UNCHANGED checkpoint
            ELSE /\ run_store' = StoreUpdate(run_store, [status |-> "running"])
                 /\ checkpoint' = IF DOMAIN task.modified_state # {}
                                  THEN update_state(checkpoint, task.modified_state)
                                  ELSE checkpoint
                 /\ tasks' = Replace(task, [task EXCEPT !.pc = "loading",
                                                         !.modified_state = << >>])
    /\ UNCHANGED << blueprint, god_mode, sessions, exec, trace, rejected >>

\* _resume_god_mode_task after the await: resume_god_mode pops the session
\* when the returned state's route_decision is "done"; the task then records
\* paused when the state query finds a pending node, else completed; an
\* exception of the step becomes status failed
ResumeFinish ==
    /\ \E task \in BagToSet(tasks) :
         /\ task.pc \in {"returned", "raised"}
         /\ IF task.pc = "raised"
            THEN /\ run_store' = StoreUpdate(run_store,
                                    [status |-> "failed", error |-> "step raised"])
                 /\ UNCHANGED sessions
            ELSE /\ sessions' = IF task.values.route_decision = "done"
                                THEN PopSession(sessions, RunId) ELSE sessions
                 /\ run_store' = StoreUpdate(run_store,
                                    StatusAfter(RunId, sessions', checkpoint))
         /\ tasks' = tasks (-) SetToBag({task})
    /\ UNCHANGED << blueprint, god_mode, checkpoint, exec, trace, rejected >>

Next ==
    \/ ExecBegin
    \/ Compile
    \/ InvokeInitial
    \/ ExecStep
    \/ ExecFinish
    \/ Approve
    \/ ResumeBegin
    \/ InvokeResume
    \/ TaskStep
    \/ ResumeFinish

Spec == Init /\ [][Next]_vars

(* ----------- auto-pilot runs of the two master/critic/writer graphs ---- *)

\* POST /councils/run (the hard-coded graph; it has no blueprint) or
\* POST /councils/run/blueprint with the cyclic blueprint, in auto-pilot
InitCouncil ==
    /\ \/ blueprint = EMPTY_BLUEPRINT /\ exec = [NewThread EXCEPT !.pc = "council_queued"]
       \/ blueprint = CYCLIC_BLUEPRINT /\ exec = NewThread
    /\ god_mode = FALSE
    /\ run_store = [status |-> "pending", active_node |-> None, error |-> None]
    /\ sessions = {}
    /\ checkpoint = NoCheckpoint
    /\ tasks = EmptyBag
    /\ trace = << >>
    /\ rejected = FALSE

NextCouncil ==
    \/ CouncilBegin
    \/ CouncilStep
    \/ CouncilFinish
    \/ ExecBegin
    \/ Compile
    \/ InvokeInitial
    \/ ExecStep
    \/ ExecFinish

\* every model call returns and the executor and the event loop keep running
CouncilSpec == InitCouncil /\ [][NextCouncil]_vars /\ WF_vars(NextCouncil)

(* ------------------------- generated blueprints ------------------------ *)

SeqsUpTo(S, n) == UNION {[1..k -> S] : k \in 0..n}

NodeUniverse == {"a", "b", "c"}

GenericNode(id) == Node(id, {"helpful", "assistant"}, "claude-3-5-sonnet")

EvaluatorNode(id) == Node(id, {"review", "draft"}, "claude-3-5-sonnet")

\* every blueprint of up to MaxNodes distinct generic nodes and up to
\* MaxEdges linear edges between ids of the universe, declared or not
LinearBlueprints ==
    {[nodes |-> [i \in DOMAIN ids |-> GenericNode(ids[i])], edges |-> edges] :
        ids \in {q \in SeqsUpTo(NodeUniverse, MaxNodes) :
                    /\ q # << >>
                    /\ \A i, j \in DOMAIN q : i # j => q[i] # q[j]},
        edges \in SeqsUpTo({Edge(u, v, "linear", "") : u, v \in NodeUniverse},
                           MaxEdges)}

\* a node s (generic or evaluator), optionally preceded by an evaluator e,
\* with up to MaxConditional conditional edges and an optional linear edge;
\* the targets named by the edges are declared after s
RouterBlueprints ==
    {[nodes |-> (IF preceded THEN << EvaluatorNode("e") >> ELSE << >>)
                \o << IF evaluator THEN EvaluatorNode("s") ELSE GenericNode("s") >>
                \o SelectSeq(<< GenericNode("t1"), GenericNode("t2"), GenericNode("t3") >>,
                             LAMBDA n : \/ \E i \in DOMAIN conditional :
                                              conditional[i].target = n.id
                                        \/ fallback /\ n.id = "t3"),
      edges |-> (IF preceded THEN << Edge("e", "s", "linear", "") >> ELSE << >>)
                \o conditional
                \o (IF fallback THEN << Edge("s", "t3", "linear", "") >> ELSE << >>)] :
        preceded \in BOOLEAN, evaluator \in BOOLEAN, fallback \in BOOLEAN,
        conditional \in {q \in SeqsUpTo({Edge("s", t, "conditional", c) :
                                            t \in {"t1", "t2"},
                                            c \in {"rework", "approve", "publish"}},
                                         MaxConditional) : q # << >>}}

\* five generic nodes in a row, then an evaluator whose model _MODEL_MAP
\* lacks: the evaluator is reached at the iteration ceiling
LATE_EVALUATOR_BLUEPRINT ==
    [nodes |-> << GenericNode("d1"), GenericNode("d2"), GenericNode("d3"),
                  GenericNode("d4"), GenericNode("d5"),
                  Node("judge", {"review", "draft"}, "nonexistent-model") >>,
     edges |-> << Edge("d1", "d2", "linear", ""), Edge("d2", "d3", "linear", ""),
                  Edge("d3", "d4", "linear", ""), Edge("d4", "d5", "linear", ""),
                  Edge("d5", "judge", "linear", "") >>]

\* a blueprint run is created (POST /api/council/run/blueprint) with any of
\* the generated blueprints
InitBuild ==
    /\ blueprint \in LinearBlueprints \cup RouterBlueprints \cup Blueprints
                     \cup {LATE_EVALUATOR_BLUEPRINT}
    /\ god_mode \in BOOLEAN
    /\ run_store = [status |-> "pending", active_node |-> None, error |-> None]
    /\ sessions = {}
    /\ checkpoint = NoCheckpoint
    /\ exec = NewThread
    /\ tasks = EmptyBag
    /\ trace = << >>
    /\ rejected = FALSE

\* _execute_blueprint_run up to the first pause or the end of the run
NextBuild ==
    \/ ExecBegin
    \/ Compile
    \/ InvokeInitial
    \/ ExecStep
    \/ ExecFinish

BuildSpec == InitBuild /\ [][NextBuild]_vars

(* --------------------- one evaluator step, any response ---------------- *)

\* the numbers (tenths) a response may write after "SCORE:"
WrittenScores == {-30, 0, 5, 79, 80, 81, 100, 150}

\* what an evaluator's model may answer: a score or none, a VERDICT word or
\* none, a FEEDBACK section or none
EvaluatorResponses ==
    {[score |-> sc, verdict |-> v, feedback |-> f,
      text |-> IF sc = << >> /\ v = None /\ ~f THEN "unstructured" ELSE "structured"] :
        sc \in {<< >>} \cup {<< x >> : x \in WrittenScores},
        v \in {"approve", "rework", None},
        f \in BOOLEAN}

\* an evaluator is about to run, in the council graph (no blueprint) or as
\* the critic of the cyclic blueprint, after 0..MAX_ITERATIONS drafts
InitEvaluator ==
    /\ blueprint \in {EMPTY_BLUEPRINT, CYCLIC_BLUEPRINT}
    /\ god_mode = FALSE
    /\ run_store = [status |-> "running", active_node |-> None, error |-> None]
    /\ sessions = {}
    /\ checkpoint = NoCheckpoint
    /\ \E n \in 0..MAX_ITERATIONS :
         exec = [NewThread EXCEPT
                    !.pc = "evaluating",
                    !.node = IF blueprint = EMPTY_BLUEPRINT THEN "critic_agent"
                             ELSE "critic",
                    !.values = [initial_state EXCEPT !.iteration_count = n,
                                                     !.current_draft = "draft"]]
    /\ tasks = EmptyBag
    /\ trace = << >>
    /\ rejected = FALSE

\* the evaluator's node function is called with the state and the model
\* answers; the update is merged and the conditional edge is resolved
EvaluatorStep ==
    /\ exec.pc = "evaluating"
    /\ \E response \in EvaluatorResponses :
         LET result == IF exec.node = "critic_agent"
                       THEN critic_agent_node(exec.values, response)
                       ELSE critic_node(NodeById(blueprint, exec.node),
                                        exec.values, response)
             values == ApplyUpdate(exec.values, result.update)
             next == IF exec.node = "critic_agent"
                     THEN council_next(exec.node, values)
                     ELSE NextNode(blueprint, exec.node, values)
         IN  /\ exec' = [exec EXCEPT !.pc = "evaluated", !.node = next,
                                     !.values = values, !.steps = @ + 1]
             /\ trace' = Append(trace,
                            [node |-> exec.node, critic |-> TRUE, loaded |-> 0,
                             iteration_count |-> exec.values.iteration_count,
                             update |-> result.update, llm_calls |-> result.llm_calls,
                             response |-> response])
    /\ UNCHANGED << blueprint, god_mode, run_store, sessions, checkpoint, tasks, rejected >>

EvaluatorSpec == InitEvaluator /\ [][EvaluatorStep]_vars

(* -------------------------- the tool sub-loop -------------------------- *)

\* the names of web_search and pdf_search, the tools _resolve_tools can bind
ToolNames == {"web_search", "pdf_search"}

\* a tool request of a response: the tool it names, its id, and whether the
\* tool, if it is run, raises
ToolCalls ==
    [name : ToolNames \cup {"calculator"}, id : {"call_x", "call_y"}, raises : BOOLEAN]

\* variant: the result record carries the tool's name in place of the id
tool_message_tagged_by_name(tools, tc) ==
    [role |-> "tool", tool_call_id |-> tc.name,
     content |-> IF tc.name \in tools
                 THEN IF tc.raises THEN "[Tool Error] exc" ELSE "result"
                 ELSE "[Tool Error] Unknown tool"]

\* the body of the loop over response.tool_calls: the ToolMessage appended
\* for one request
tool_message(tools, tc) ==
    [role |-> "tool", tool_call_id |-> tc.id,
     content |-> IF tc.name \in tools
                 THEN IF tc.raises THEN "[Tool Error] exc" ELSE "result"
                 ELSE "[Tool Error] Unknown tool"]

\* variant: with tools bound the sub-loop always asks the model twice
invoke_with_tools_always_twice(tools, first, second) ==
    IF tools = {}
    THEN [response |-> first, llm_calls |-> 1, invoked |-> << >>, sent |-> << >>]
    ELSE [response |-> second, llm_calls |-> 2,
          invoked |-> SelectSeq(first.tool_calls, LAMBDA tc : tc.name \in tools),
          sent |-> << first >> \o [i \in DOMAIN first.tool_calls |->
                                      tool_message(tools, first.tool_calls[i])]]

\* _invoke_with_tools: the response returned, the model invocations made,
\* the requests whose tool was run, and the messages the second invocation
\* got after the step's own; `first` and `second` are what the model answers
invoke_with_tools(tools, first, second) ==
    IF tools = {}
    THEN [response |-> first, llm_calls |-> 1, invoked |-> << >>, sent |-> << >>]
    ELSE IF first.tool_calls = << >>
    THEN [response |-> first, llm_calls |-> 1, invoked |-> << >>, sent |-> << >>]
    ELSE [response |-> second, llm_calls |-> 2,
          invoked |-> SelectSeq(first.tool_calls, LAMBDA tc : tc.name \in tools),
          sent |-> << first >> \o [i \in DOMAIN first.tool_calls |->
                                      tool_message(tools, first.tool_calls[i])]]

\* what agent_node returns once _invoke_with_tools has handed it `response`:
\* the messages entry is [system_msg, user_msg, response]
agent_node_return(node_id, state, response) ==
    [current_draft |-> response.content,
     messages |-> << Msg("system", node_id, "persona"),
                     Msg("human", node_id, AgentPrompt(state)),
                     response >>,
     active_node |-> node_id,
     iteration_count |-> state.iteration_count + 1]

\* a node step is about to call _invoke_with_tools
InitTools ==
    /\ blueprint = SIMPLE_LINEAR_BLUEPRINT
    /\ god_mode = FALSE
    /\ run_store = [status |-> "running", active_node |-> None, error |-> None]
    /\ sessions = {}
    /\ checkpoint = NoCheckpoint
    /\ exec = [NewThread EXCEPT !.pc = "invoking", !.node = "node-1"]
    /\ tasks = EmptyBag
    /\ trace = << >>
    /\ rejected = FALSE

\* a generic step from its call of _invoke_with_tools on, with the tools the
\* node's configuration resolves to: the sub-loop runs and the step's update
\* is applied; a model without bound tools answers without tool requests
InvokeWithTools ==
    /\ exec.pc = "invoking"
    /\ \E tools \in SUBSET ToolNames,
          calls1 \in SeqsUpTo(ToolCalls, MaxToolCalls),
          calls2 \in {<< >>, << [name |-> "web_search", id |-> "call_z", raises |-> FALSE] >>} :
         LET first == [content |-> "first",
                       tool_calls |-> IF tools = {} THEN << >> ELSE calls1]
             second == [content |-> "second", tool_calls |-> calls2]
             out == invoke_with_tools(tools, first, second)
         IN  /\ exec' = [exec EXCEPT !.pc = "invoked",
                                     !.values = ApplyUpdate(exec.values,
                                                    agent_node_return(exec.node, exec.values, out.response))]
             /\ trace' = Append(trace, [tools |-> tools, first |-> first,
                                        second |-> second, out |-> out])
    /\ UNCHANGED << blueprint, god_mode, run_store, sessions, checkpoint, tasks, rejected >>

ToolSpec == InitTools /\ [][InvokeWithTools]_vars

(* ------------------- supervised runs that are approved ----------------- *)

\* the client answers a pause, once the run is recorded as paused and no
\* resume is under way, with POST .../approve {"action": "approve"}
ApproveOnPause ==
    /\ run_store.status = "paused"
    /\ tasks = EmptyBag
    /\ approve_god_mode(RunId)
    /\ \E task \in BagToSet(tasks') :
         task.action = "approve" /\ task.modified_state = << >>
    /\ UNCHANGED << blueprint, god_mode, checkpoint, exec, trace >>

NextApproved ==
    \/ ExecBegin
    \/ Compile
    \/ InvokeInitial
    \/ ExecStep
    \/ ExecFinish
    \/ ApproveOnPause
    \/ ResumeBegin
    \/ InvokeResume
    \/ TaskStep
    \/ ResumeFinish

\* auto-pilot runs and supervised runs whose every pause is approved
ApprovedSpec == Init /\ [][NextApproved]_vars

\* the graph build_graph_from_blueprint compiles, invoked without interrupts
\* from `node_id` on `values`: whether it takes the steps trace[i], trace[i+1],
\* ... (same node, same update for some response of the model), and the
\* context it then holds and the node it would run next
RECURSIVE AutoPilotFrom(_, _, _)
AutoPilotFrom(i, node_id, values) ==
    IF i > Len(trace)
    THEN [ok |-> TRUE, values |-> values, next |-> node_id]
    ELSE IF node_id = END \/ trace[i].node # node_id
    THEN [ok |-> FALSE, values |-> values, next |-> node_id]
    ELSE LET node == NodeById(blueprint, node_id)
             same == {r \in ResponsesFor(node) :
                         LET result == node_fn(node, values, r)
                         IN  ~result.raised /\ result.update = trace[i].update}
         IN  IF same = {}
             THEN [ok |-> FALSE, values |-> values, next |-> node_id]
             ELSE LET response == CHOOSE r \in same : TRUE
                      after == ApplyUpdate(values, node_fn(node, values, response).update)
                  IN  AutoPilotFrom(i + 1, NextNode(blueprint, node_id, after), after)

(* --------------------------- rework cycles ----------------------------- *)

\* a cycle g -> e1 -> e2 -> g with two evaluators in a row: each sends the
\* draft on for 'rework' and to the final node w for 'approve'
DOUBLE_EVALUATOR_BLUEPRINT ==
    [nodes |-> << GenericNode("g"), EvaluatorNode("e1"), EvaluatorNode("e2"),
                  GenericNode("w") >>,
     edges |-> << Edge("g", "e1", "linear", ""),
                  Edge("e1", "e2", "conditional", "rework"),
                  Edge("e1", "w", "conditional", "approve"),
                  Edge("e2", "g", "conditional", "rework"),
                  Edge("e2", "w", "conditional", "approve") >>]

\* an auto-pilot run of a blueprint with a rework cycle
InitRework ==
    /\ blueprint \in {CYCLIC_BLUEPRINT, DOUBLE_EVALUATOR_BLUEPRINT}
    /\ god_mode = FALSE
    /\ run_store = [status |-> "pending", active_node |-> None, error |-> None]
    /\ sessions = {}
    /\ checkpoint = NoCheckpoint
    /\ exec = NewThread
    /\ tasks = EmptyBag
    /\ trace = << >>
    /\ rejected = FALSE

ReworkSpec == InitRework /\ [][NextBuild]_vars

\* the node steps of the trace that are evaluator steps routing 'rework'
ReworkSteps ==
    {i \in DOMAIN trace : trace[i].critic /\ trace[i].update.route_decision = "rework"}

\* every cycle of the blueprint's edges passes through a generic node: from
\* no evaluator can an evaluator be reached again along evaluators only
RECURSIVE EvaluatorsReachable(_, _)
EvaluatorsReachable(bp, from) ==
    LET step == {e.target : e \in {d \in Range(bp.edges) :
                                     /\ d.source \in from
                                     /\ d.target \in NodeIds(bp)
                                     /\ IsCritic(NodeById(bp, d.target))}}
    IN  IF step \subseteq from THEN from ELSE EvaluatorsReachable(bp, from \cup step)

EveryCycleHasGenericStep(bp) ==
    \A n \in Range(bp.nodes) :
        IsCritic(n) =>
            n.id \notin EvaluatorsReachable(bp,
                            {e.target : e \in {d \in Range(bp.edges) :
                                                 /\ d.source = n.id
                                                 /\ d.target \in NodeIds(bp)
                                                 /\ IsCritic(NodeById(bp, d.target))}})

(* ------------------------------ the RunStore --------------------------- *)

\* the run ids the store is called with; "ghost-run" is never created
StoreRunIds == {"run-a", "run-b", "ghost-run"}

\* the dicts RunStore.update is called with
StoreUpdates ==
    {[status |-> "running"],
     [active_node |-> "node-1"],
     [status |-> "completed", final_draft |-> "Result text", active_node |-> "done"]}

\* the record RunStore.create stores
NewRecord(run_id, input_topic) ==
    [run_id |-> run_id, input_topic |-> input_topic, status |-> "pending",
     final_draft |-> None, critic_score |-> None, iteration_count |-> None,
     active_node |-> None, error |-> None]

\* RunStore.create: self._store[run_id] = {...}
RunStore_create(store, run_id, input_topic) ==
    [k \in DOMAIN store \cup {run_id} |->
        IF k = run_id THEN NewRecord(run_id, input_topic) ELSE store[k]]

\* variant: update stores the dict under a run id the store lacks
RunStore_update_or_insert(store, run_id, updates) ==
    [k \in DOMAIN store \cup {run_id} |->
        IF k # run_id THEN store[k]
        ELSE IF run_id \in DOMAIN store THEN updates @@ store[k] ELSE updates]

\* RunStore.update: if run_id in self._store: self._store[run_id].update(updates)
RunStore_update(store, run_id, updates) ==
    IF run_id \in DOMAIN store
    THEN [store EXCEPT ![run_id] = updates @@ @]
    ELSE store

\* RunStore.delete: self._store.pop(run_id, None)
RunStore_delete(store, run_id) ==
    [k \in DOMAIN store \ {run_id} |-> store[k]]

\* RunStore(): the store is empty; run_store is the whole dict here and
\* trace the calls made
InitStore ==
    /\ blueprint = EMPTY_BLUEPRINT
    /\ god_mode = FALSE
    /\ run_store = << >>
    /\ sessions = {}
    /\ checkpoint = NoCheckpoint
    /\ exec = NewThread
    /\ tasks = EmptyBag
    /\ trace = << >>
    /\ rejected = FALSE

StoreCreate ==
    /\ Len(trace) < MaxStoreCalls
    /\ \E run_id \in StoreRunIds \ {"ghost-run"} :
         /\ run_store' = RunStore_create(run_store, run_id, "Topic")
         /\ trace' = Append(trace, [op |-> "create", run_id |-> run_id, updates |-> << >>])
    /\ UNCHANGED << blueprint, god_mode, sessions, checkpoint, exec, tasks, rejected >>

StoreUpdateCall ==
    /\ Len(trace) < MaxStoreCalls
    /\ \E run_id \in StoreRunIds, updates \in StoreUpdates :
         /\ run_store' = RunStore_update(run_store, run_id, updates)
         /\ trace' = Append(trace, [op |-> "update", run_id |-> run_id, updates |-> updates])
    /\ UNCHANGED << blueprint, god_mode, sessions, checkpoint, exec, tasks, rejected >>

StoreDelete ==
    /\ Len(trace) < MaxStoreCalls
    /\ \E run_id \in StoreRunIds :
         /\ run_store' = RunStore_delete(run_store, run_id)
         /\ trace' = Append(trace, [op |-> "delete", run_id |-> run_id, updates |-> << >>])
    /\ UNCHANGED << blueprint, god_mode, sessions, checkpoint, exec, tasks, rejected >>

NextStore ==
    \/ StoreCreate
    \/ StoreUpdateCall
    \/ StoreDelete

StoreSpec == InitStore /\ [][NextStore]_vars

(* ------------------------------- claims -------------------------------- *)

\* C1: of two approve/modify/reject commands issued for the same paused run,
\* at most one is applied; the pending node's step is never executed twice
\* for the same checkpoint: no two executed steps started from one checkpoint.
C1_StepRunsOncePerCheckpoint ==
    god_mode =>
        \A i, j \in DOMAIN trace : i < j => trace[i].loaded # trace[j].loaded

\* C2: at most one node step of a run is executing at any moment, in
\* auto-pilot and in God Mode alike.
C2_OneStepInFlight ==
    LET executing == {t \in BagToSet(tasks) : t.pc = "executing"}
    IN  (IF exec.pc = "executing" THEN 1 ELSE 0)
        + BagCardinality([t \in executing |-> tasks[t]]) <= 1

\* C3: in God Mode no node step runs without a suspension immediately before
\* it: the run's first invoke runs no step at all, a step in flight is the
\* first step of its resumed invoke, and a resumed invoke (one accepted
\* approve or modify) runs at most one step before it returns.
C3_SuspensionBeforeEveryStep ==
    god_mode =>
        /\ exec.steps = 0
        /\ exec.pc # "executing"
        /\ \A t \in BagToSet(tasks) :
             /\ t.steps <= 1
             /\ t.pc = "executing" => t.steps = 0

\* C3 witness: two approved steps have run, one after the other, and the run
\* is suspended again, before a repeated visit of the node that ran first
C3_Witness ==
    /\ god_mode
    /\ Len(trace) = 2
    /\ trace[1].loaded # trace[2].loaded
    /\ run_store.status = "paused"
    /\ checkpoint.next = << trace[1].node >>

\* C4: once a reject has been accepted, no further node step executes and the
\* recorded status never changes from failed.
C4_RejectIsFinal ==
    [][rejected => (trace' = trace /\ run_store'.status = "failed")]_vars

\* C5: after an accepted reject the run has no session, so the state query
\* returns not found from then on; and while no run id has a session, an
\* approve/modify/reject request or the start of a resume is a no-op on the
\* session table, the checkpoint and the executed steps.
C5_RejectRemovesSession ==
    /\ [](rejected => (RunId \notin sessions /\ ~get_god_mode_state(RunId).found))
    /\ [][((\A r \in RunIds : ~get_god_mode_state(r).found) /\ (Approve \/ ResumeBegin))
            => (sessions' = sessions /\ checkpoint' = checkpoint /\ trace' = trace
                /\ BagCardinality(tasks') <= BagCardinality(tasks))]_vars

\* C5 witness: a reject was accepted and a resume that started afterwards
\* has found no session
C5_Witness ==
    /\ rejected
    /\ RunId \notin sessions
    /\ run_store.error = "God Mode session not found."

\* C6: once a God Mode run has been started and before any command is
\* issued, the state query finds it paused with the entry node (the node
\* without an incoming edge, else the first declared) among next_nodes.
C6_PausedBeforeEntry ==
    (/\ god_mode
     /\ exec.pc = "done"
     /\ blueprint.nodes # << >>
     /\ tasks = EmptyBag /\ trace = << >> /\ ~rejected /\ checkpoint.id = 1)
    => LET god_state == get_god_mode_state(RunId)
           entry == CASE blueprint = SIMPLE_LINEAR_BLUEPRINT -> "node-1"
                      [] blueprint = CYCLIC_BLUEPRINT -> "master"
                      [] blueprint = ROUTED_BLUEPRINT -> "reviewer"
                      [] OTHER -> None
       IN  /\ god_state.found
           /\ god_state.paused
           /\ entry \in Range(god_state.next_nodes)

\* C6 witness: the cyclic blueprint's run is registered and paused, and no
\* command has been issued yet
C6_Witness ==
    /\ god_mode
    /\ blueprint = CYCLIC_BLUEPRINT
    /\ exec.pc = "done"
    /\ RunId \in sessions
    /\ run_store.status = "paused"
    /\ tasks = EmptyBag /\ trace = << >> /\ ~rejected

\* C7: approve applies no context change: the step an approve resumes
\* receives the context of the paused snapshot the request saw, and runs the
\* node that snapshot names as pending.
C7_ApproveKeepsSnapshot ==
    \A t \in BagToSet(tasks) :
        (t.action = "approve" /\ t.pc = "executing" /\ t.steps = 0)
        => (t.values = t.seen.values /\ << t.node >> = t.seen.next)

\* C8: when a modify is applied to the snapshot its request saw, with no
\* other command in flight, exactly the named fields change (a scalar is
\* overwritten, feedback_history and messages are concatenated), every other
\* field is unchanged, and the pending node stays the one approve would resume.
C8_ModifyMergesAndKeepsPendingNode ==
    [][\A t \in BagToSet(tasks) :
          (/\ t.pc = "queued" /\ t.action = "modify"
           /\ BagCardinality(tasks) = 1 /\ t.seen = checkpoint
           /\ RunId \in sessions
           /\ run_store'.status = "running"
           /\ tasks' = Replace(t, [t EXCEPT !.pc = "loading", !.modified_state = << >>]))
          => /\ \A k \in DOMAIN checkpoint.values :
                  checkpoint'.values[k] =
                      IF k \notin DOMAIN t.modified_state THEN checkpoint.values[k]
                      ELSE IF k \in {"feedback_history", "messages"}
                           THEN checkpoint.values[k] \o t.modified_state[k]
                           ELSE t.modified_state[k]
             /\ checkpoint'.next = checkpoint.next]_vars

\* C9: a God Mode run's status moves only pending -> running,
\* running -> paused, paused -> running, paused -> failed, running -> completed
\* and running -> failed; completed and failed are left by no transition.
C9_StatusTransitions ==
    [][(god_mode /\ run_store'.status # run_store.status)
         => << run_store.status, run_store'.status >> \in
               {<< "pending", "running" >>, << "running", "paused" >>,
                << "paused", "running" >>, << "paused", "failed" >>,
                << "running", "completed" >>, << "running", "failed" >>}]_vars

\* C10: a critic step entered with iteration_count >= 5 returns
\* route_decision "approve" and critic_score 8.0 and calls no model, whatever
\* the node's model name and whatever the model would have answered; the
\* hard-coded council's critic does the same on the same context.
C10_SafetyValve ==
    /\ \A i \in DOMAIN trace :
         (trace[i].critic /\ trace[i].iteration_count >= 5)
         => /\ trace[i].update.route_decision = "approve"
            /\ trace[i].update.critic_score = 80
            /\ trace[i].llm_calls = 0
    /\ \A thread \in {exec} \cup BagToSet(tasks) :
         (/\ thread.pc = "executing"
          /\ IsCritic(NodeById(blueprint, thread.node))
          /\ thread.values.iteration_count >= 5)
         => \A model \in MODEL_MAP \cup {"nonexistent-model"}, response \in CriticResponses :
              LET node == [NodeById(blueprint, thread.node) EXCEPT !.model = model]
                  result == node_fn(node, thread.values, response)
                  fixed == critic_agent_node(thread.values, response)
              IN  /\ ~result.raised
                  /\ result.update.route_decision = "approve"
                  /\ result.update.critic_score = 80
                  /\ result.llm_calls = 0
                  /\ fixed.update.route_decision = "approve"
                  /\ fixed.update.critic_score = 80
                  /\ fixed.llm_calls = 0

\* C10 witness: a critic step that was entered with iteration_count >= 5 has run
C10_Witness ==
    \E i \in DOMAIN trace : trace[i].critic /\ trace[i].iteration_count >= 5

\* C11: an auto-pilot run of master -> critic -> (rework: master | approve:
\* writer) -> end, hard-coded or built from the cyclic blueprint, terminates
\* whatever the critic answers: master runs at most 5 times, writer runs at
\* most once and nothing runs after it, and the run does finish, with writer
\* as its last step.
C11_CouncilTerminates ==
    /\ [](LET masters == {i \in DOMAIN trace : trace[i].node \in {"master_agent", "master"}}
              writers == {i \in DOMAIN trace : trace[i].node \in {"writer_agent", "writer"}}
          IN  /\ Cardinality(masters) <= 5
              /\ writers \subseteq {Len(trace)}
              /\ exec.pc = "done" => (writers = {Len(trace)} /\ run_store.status = "completed"))
    /\ <>(exec.pc = "done")

\* C11 witness: a hard-coded council run has finished after the critic sent
\* the draft back every time, master having run 5 times
C11_Witness ==
    /\ exec.pc = "done"
    /\ blueprint = EMPTY_BLUEPRINT
    /\ Cardinality({i \in DOMAIN trace : trace[i].node = "master_agent"}) = 5
    /\ trace[Len(trace)].node = "writer_agent"

\* C12: every evaluator step that routes "rework" lengthens the feedback log by
\* exactly one entry and every evaluator step that routes "approve" by none
C12_FeedbackPerVerdict ==
    \A i \in DOMAIN trace :
        trace[i].critic /\ trace[i].update # << >> =>
            LET added == IF "feedback_history" \in DOMAIN trace[i].update
                         THEN Len(trace[i].update.feedback_history) ELSE 0
            IN  added = IF trace[i].update.route_decision = "rework" THEN 1 ELSE 0

\* C12 as the code has it: a rework adds one entry, an approval by score adds
\* none, and the forced approval at the iteration ceiling adds one entry
C12_FeedbackPerVerdictAmended ==
    \A i \in DOMAIN trace :
        trace[i].critic /\ trace[i].update # << >> =>
            LET added == IF "feedback_history" \in DOMAIN trace[i].update
                         THEN Len(trace[i].update.feedback_history) ELSE 0
                forced == trace[i].iteration_count >= MAX_ITERATIONS
            IN  added = IF trace[i].update.route_decision = "rework" \/ forced
                        THEN 1 ELSE 0

\* a run whose evaluator sent the draft back and then, at the iteration
\* ceiling, approved it by force and added the entry noting that
C12_Witness ==
    /\ \E i \in DOMAIN trace :
          trace[i].critic /\ trace[i].update.route_decision = "rework"
    /\ \E i \in DOMAIN trace :
          /\ trace[i].critic /\ trace[i].iteration_count >= MAX_ITERATIONS
          /\ trace[i].update.route_decision = "approve"
          /\ Len(trace[i].update.feedback_history) = 1

\* C13: across every step and every controller action the feedback log and
\* the history are only extended at the end: the value before is a prefix of
\* the value after
C13_LogsOnlyExtended ==
    [][LET prefix(old, new) ==
               Len(old) <= Len(new) /\ SubSeq(new, 1, Len(old)) = old
       IN  /\ prefix(checkpoint.values.feedback_history,
                     checkpoint'.values.feedback_history)
           /\ prefix(checkpoint.values.messages, checkpoint'.values.messages)]_vars

\* C14: the iteration count never decreases, across steps and controller
\* actions
C14_IterationCountNeverDecreases ==
    [][checkpoint'.values.iteration_count >= checkpoint.values.iteration_count]_vars

\* C15: the topic and the run id keep the values given at creation; no step
\* and no controller action changes them
C15_TopicAndRunIdKept ==
    [][/\ checkpoint'.values.input_topic = checkpoint.values.input_topic
       /\ checkpoint'.values.run_id = checkpoint.values.run_id]_vars

\* C16: after a node with conditional edges the run continues at the target
\* of a conditional edge whose condition equals the routing signal; without
\* such an edge at the target of the node's linear edge; without that at the
\* target of the first declared conditional edge; in every case at the target
\* of one of the node's own outgoing edges
C16_RouterChoice ==
    [][(exec.pc = "executing" /\ Len(trace') = Len(trace) + 1
        /\ ConditionalEdges(blueprint, exec.node) # << >>) =>
          LET conditional == ConditionalEdges(blueprint, exec.node)
              linear == LinearEdges(blueprint, exec.node)
              signal == exec'.values.route_decision
              matching == {i \in DOMAIN conditional : conditional[i].condition = signal}
              went == IF exec'.node = None THEN END ELSE exec'.node
          IN  /\ matching # {} => \E i \in matching : went = conditional[i].target
              /\ matching = {} /\ linear # << >> => went = linear[1].target
              /\ matching = {} /\ linear = << >> => went = conditional[1].target
              /\ \E e \in Range(blueprint.edges) :
                    e.source = exec.node /\ e.target = went]_vars

\* the node s has run with a signal that none of its conditions names and
\* without a linear edge, and the run is at its first conditional target
C16_Witness ==
    /\ trace # << >> /\ trace[Len(trace)].node = "s"
    /\ LET conditional == ConditionalEdges(blueprint, "s")
       IN  /\ conditional # << >>
           /\ LinearEdges(blueprint, "s") = << >>
           /\ \A i \in DOMAIN conditional :
                 conditional[i].condition # exec.values.route_decision
           /\ Len(conditional) = 2 /\ conditional[1].target # conditional[2].target
           /\ exec.pc = "executing" /\ exec.node = conditional[1].target

\* C17: the routing signal by which the successor of a node with conditional
\* edges is chosen was set by that node's own step; the signal of an earlier
\* step is cleared before and steers no later node
C17_SignalSetByThisStep ==
    [][(exec.pc = "executing" /\ Len(trace') = Len(trace) + 1
        /\ ConditionalEdges(blueprint, exec.node) # << >>) =>
          \/ "route_decision" \in DOMAIN trace'[Len(trace')].update
          \/ exec'.values.route_decision = ""]_vars

\* C18: a run starts at the one declared node that no edge points to, and at
\* the first declared node when every node is pointed to; an auto-pilot and a
\* supervised compilation of one blueprint infer the same entry
C18_EntryInference ==
    LET noIncoming == {nid \in NodeIds(blueprint) :
                          \A e \in Range(blueprint.edges) : e.target # nid}
        started == trace # << >> \/ exec.node # None
        entry == IF trace # << >> THEN trace[1].node ELSE exec.node
    IN  /\ started =>
              /\ Cardinality(noIncoming) = 1 => entry \in noIncoming
              /\ noIncoming = {} => entry = blueprint.nodes[1].id
              /\ god_mode => checkpoint.id >= 1 /\ checkpoint.next = << entry >>
        /\ blueprint.nodes # << >> =>
              EntryNodeId(blueprint) = EntryNodeIdCheckpointer(blueprint)

\* a supervised run is paused before its entry, the one node without an
\* incoming edge, which is not the first declared
C18_Witness ==
    /\ god_mode /\ exec.pc = "done" /\ run_store.status = "paused"
    /\ Len(blueprint.nodes) = 2
    /\ \E e \in Range(blueprint.edges) : e.target = blueprint.nodes[1].id
    /\ \A e \in Range(blueprint.edges) : e.target # blueprint.nodes[2].id
    /\ checkpoint.next = << blueprint.nodes[2].id >>

\* C19: a run reaches END only immediately after a node without an outgoing
\* edge, after such a node it always ends, and a node with at least one
\* outgoing edge never routes to END
C19_EndOnlyAfterTerminalNode ==
    [][(exec.pc = "executing" /\ Len(trace') = Len(trace) + 1) =>
          LET outgoing == {e \in Range(blueprint.edges) : e.source = exec.node}
          IN  (exec'.node = None /\ exec'.pc = "returned") <=> outgoing = {}]_vars

\* a run of at least two steps has reached END: its last node has no
\* outgoing edge, its first node has one
C19_Witness ==
    /\ Len(trace) >= 2 /\ exec.node = None /\ exec.pc = "returned"
    /\ \A e \in Range(blueprint.edges) : e.source # trace[Len(trace)].node
    /\ \E e \in Range(blueprint.edges) : e.source = trace[1].node

\* C20: compiling a blueprint with an edge whose source or target is not a
\* declared node fails: no graph is produced, no node step executes, and the
\* run ends as failed
C20_InvalidEdgeReferenceFails ==
    (\E e \in Range(blueprint.edges) :
        e.source \notin NodeIds(blueprint) \/ e.target \notin NodeIds(blueprint))
    => /\ trace = << >>
       /\ exec.pc \notin {"loading", "executing", "returned"}
       /\ exec.pc = "done" => run_store.status = "failed"

\* C21: a run of a blueprint without nodes fails with the empty-blueprint
\* error, in auto-pilot and supervised alike, before any step executes, any
\* checkpoint is written or any session is created
C21_EmptyBlueprintFails ==
    blueprint.nodes = << >> =>
        /\ trace = << >> /\ sessions = {} /\ checkpoint = NoCheckpoint
        /\ exec.pc \in {"queued", "compiling", "done"}
        /\ exec.pc = "done" =>
              /\ run_store.status = "failed"
              /\ run_store.error = "Blueprint has no nodes."

\* a supervised run of the empty blueprint has failed
C21_Witness ==
    /\ blueprint.nodes = << >> /\ god_mode /\ exec.pc = "done"
    /\ run_store.status = "failed"

\* C22: an evaluator step below the iteration ceiling whose response writes
\* "SCORE: x" records the score clamp(x, 0, 10) and routes "approve" exactly
\* when that score is at least 8.0, "rework" otherwise, whatever VERDICT the
\* response carries
C22_ScoreAloneDecides ==
    \A i \in DOMAIN trace :
        ("response" \in DOMAIN trace[i] /\ trace[i].iteration_count < 5
         /\ trace[i].response.score # << >>) =>
            LET x == trace[i].response.score[1]
                clamped == IF x < 0 THEN 0 ELSE IF x > 100 THEN 100 ELSE x
                update == trace[i].update
            IN  /\ update.critic_score = clamped
                /\ update.route_decision = IF clamped >= 80 THEN "approve" ELSE "rework"
                /\ exec.values.critic_score = clamped
                /\ exec.values.route_decision = update.route_decision

\* the response wrote exactly 8.0 with VERDICT rework and the step approved
C22_Witness ==
    /\ exec.pc = "evaluated" /\ exec.values.route_decision = "approve"
    /\ trace[1].response.score = << 80 >> /\ trace[1].response.verdict = "rework"
    /\ trace[1].iteration_count = MAX_ITERATIONS - 1

\* C23: an evaluator response without SCORE and without FEEDBACK section is
\* no error: the step records score 0, routes "rework", appends one feedback
\* entry made of the raw response text, and the run goes on at the rework
\* target
C23_UnstructuredResponseReworks ==
    \A i \in DOMAIN trace :
        ("response" \in DOMAIN trace[i] /\ trace[i].iteration_count < MAX_ITERATIONS
         /\ trace[i].response.score = << >> /\ ~trace[i].response.feedback) =>
            LET update == trace[i].update
            IN  /\ update.critic_score = 0
                /\ update.route_decision = "rework"
                /\ update.feedback_history = << [kind |-> "raw", score |-> 0] >>
                /\ exec.values.feedback_history = << [kind |-> "raw", score |-> 0] >>
                /\ trace[i].llm_calls = 1
                /\ exec.pc = "evaluated"
                /\ exec.node = IF trace[i].node = "critic_agent"
                               THEN "master_agent" ELSE "master"

\* the critic of the cyclic blueprint got an unstructured answer and the run
\* is back at master
C23_Witness ==
    /\ exec.pc = "evaluated" /\ exec.node = "master"
    /\ trace[1].response.text = "unstructured"
    /\ exec.values.critic_score = 0

\* C24: the tool sub-loop asks the model once when no tool is bound or the
\* first response carries no tool request, returning that response unchanged
\* and running no tool; otherwise it asks exactly twice and returns the second
\* response as final, whose own tool requests are not run
C24_ToolLoopInvocations ==
    \A i \in DOMAIN trace :
        "out" \in DOMAIN trace[i] =>
            LET t == trace[i]
            IN  IF t.tools = {} \/ t.first.tool_calls = << >>
                THEN /\ t.out.llm_calls = 1
                     /\ t.out.response = t.first
                     /\ t.out.invoked = << >>
                ELSE /\ t.out.llm_calls = 2
                     /\ t.out.response = t.second
                     /\ \A j \in DOMAIN t.out.invoked :
                           \E k \in DOMAIN t.first.tool_calls :
                               t.out.invoked[j] = t.first.tool_calls[k]
                     /\ \A j \in DOMAIN t.out.invoked : t.out.invoked[j].id # "call_z"

\* tools are bound, the first response asked for a tool and the second one
\* asks again: the second response is returned and its request is not run
C24_Witness ==
    /\ exec.pc = "invoked"
    /\ trace[1].tools # {} /\ trace[1].first.tool_calls # << >>
    /\ trace[1].second.tool_calls # << >>
    /\ trace[1].out.response = trace[1].second /\ trace[1].out.llm_calls = 2

\* C25: when a response carries tool requests, every request yields exactly
\* one result record, in request order and tagged with the request's id; a
\* request naming an unregistered tool or whose tool raises yields an inline
\* error string, the other requests are still run, and the second model
\* invocation takes place
C25_OneResultPerRequest ==
    \A i \in DOMAIN trace :
        ("out" \in DOMAIN trace[i] /\ trace[i].tools # {}
         /\ trace[i].first.tool_calls # << >>) =>
            LET t == trace[i]
                calls == t.first.tool_calls
                results == SubSeq(t.out.sent, 2, Len(t.out.sent))
            IN  /\ t.out.sent[1] = t.first
                /\ Len(results) = Len(calls)
                /\ \A j \in DOMAIN calls :
                      /\ results[j].tool_call_id = calls[j].id
                      /\ calls[j].name \notin t.tools =>
                            results[j].content = "[Tool Error] Unknown tool"
                      /\ calls[j].name \in t.tools /\ calls[j].raises =>
                            results[j].content = "[Tool Error] exc"
                      /\ calls[j].name \in t.tools /\ ~calls[j].raises =>
                            results[j].content = "result"
                /\ Len(t.out.invoked) =
                      Cardinality({j \in DOMAIN calls : calls[j].name \in t.tools})
                /\ t.out.llm_calls = 2

\* the first request named an unregistered tool, the second one a bound tool
\* that ran; both have their record and the model was asked again
C25_Witness ==
    /\ exec.pc = "invoked"
    /\ Len(trace[1].first.tool_calls) = 2
    /\ trace[1].first.tool_calls[1].name \notin trace[1].tools
    /\ trace[1].first.tool_calls[2].name \in trace[1].tools
    /\ trace[1].first.tool_calls[1].id # trace[1].first.tool_calls[2].id
    /\ ~trace[1].first.tool_calls[2].raises
    /\ trace[1].out.sent[3].content = "result"
    /\ trace[1].out.llm_calls = 2

\* C26: a blueprint with a node whose model is not recognised compiles; the
\* step of that node raises before any model call, none of its updates is
\* applied, and the run ends with status failed
C26_UnknownModelFailsStep ==
    [][/\ (exec.pc = "executing" /\ exec' # exec
           /\ NodeById(blueprint, exec.node).model \notin MODEL_MAP) =>
              /\ exec'.pc = "raised"
              /\ exec'.values = exec.values /\ trace' = trace
       /\ (exec.pc = "raised" /\ exec'.pc = "done") => run_store'.status = "failed"]_vars

\* C26 as the code has it: the step of a node with an unrecognised model
\* raises before any model call and the run fails, unless the node is an
\* evaluator reached at the iteration ceiling, whose step returns the forced
\* approval without resolving the model
C26_UnknownModelFailsStepAmended ==
    [][/\ (exec.pc = "executing" /\ exec' # exec
           /\ NodeById(blueprint, exec.node).model \notin MODEL_MAP) =>
              LET node == NodeById(blueprint, exec.node)
              IN  IF IsCritic(node) /\ exec.values.iteration_count >= MAX_ITERATIONS
                  THEN /\ exec'.pc # "raised"
                       /\ exec'.values.route_decision = "approve"
                       /\ trace'[Len(trace')].llm_calls = 0
                  ELSE /\ exec'.pc = "raised"
                       /\ exec'.values = exec.values /\ trace' = trace
       /\ (exec.pc = "raised" /\ exec'.pc = "done") => run_store'.status = "failed"
       /\ exec'.pc = "raised" =>
              /\ exec.pc = "executing"
              /\ NodeById(blueprint, exec.node).model \notin MODEL_MAP]_vars

\* the evaluator's rework sent the run to the node with the unrecognised
\* model, whose step raised: the run has failed, the evaluator's step is the
\* only one applied
C26_Witness ==
    /\ blueprint = ROUTED_BLUEPRINT /\ ~god_mode
    /\ exec.pc = "done" /\ exec.node = "fixer" /\ run_store.status = "failed"
    /\ Len(trace) = 1 /\ exec.values.current_draft = ""

\* C27: once a node step has raised and the run is recorded as failed with
\* that failure, no node step of the run executes any more
C27_NoStepAfterFailure ==
    [][(run_store.error = "step raised") =>
          /\ ~(exec.pc = "executing" /\ exec' # exec)
          /\ \A t \in BagToSet(tasks) :
                t.pc = "executing" => CopiesIn(t, tasks') >= CopiesIn(t, tasks)]_vars

\* C28: while a run has no session or is not recorded as paused, an approve,
\* modify or reject request for it is refused: no resume task is scheduled
\* and no reject takes effect
C28_RefusedUnlessSuspended ==
    [][(RunId \notin sessions \/ run_store.status # "paused") =>
          /\ BagCardinality(tasks') <= BagCardinality(tasks)
          /\ rejected' = rejected]_vars

\* C29: the cyclic blueprint run in auto-pilot with the critic's first
\* response "SCORE: 9" executes master, critic and writer in that order, each
\* once, then reaches END, and the final iteration count is that of one
\* master execution, 1
C29_ApprovedAtOnce ==
    (blueprint = CYCLIC_BLUEPRINT /\ Len(trace) >= 2
     /\ trace[2].update.critic_score = 90) =>
        /\ Len(trace) <= 3
        /\ \A i \in DOMAIN trace : trace[i].node = << "master", "critic", "writer" >>[i]
        /\ exec.pc \in {"returned", "done"} =>
              /\ Len(trace) = 3 /\ exec.node = None
              /\ exec.values.iteration_count = 1
        /\ exec.pc = "done" => run_store.status = "completed"

\* C29 as the code has it: master, critic and writer run in that order, each
\* once, then END; master's execution counts one iteration and the writer,
\* a generic step as well, counts another: the final iteration count is 2
C29_ApprovedAtOnceAmended ==
    (blueprint = CYCLIC_BLUEPRINT /\ Len(trace) >= 2
     /\ trace[2].update.critic_score = 90) =>
        /\ Len(trace) <= 3
        /\ \A i \in DOMAIN trace : trace[i].node = << "master", "critic", "writer" >>[i]
        /\ "iteration_count" \in DOMAIN trace[1].update
        /\ trace[1].update.iteration_count = 1
        /\ exec.pc \in {"returned", "done"} =>
              /\ Len(trace) = 3 /\ exec.node = None
              /\ exec.values.iteration_count = 2
        /\ exec.pc = "done" => run_store.status = "completed"

\* the run approved at once has completed
C29_Witness ==
    /\ blueprint = CYCLIC_BLUEPRINT /\ exec.pc = "done"
    /\ Len(trace) = 3 /\ trace[2].update.critic_score = 90
    /\ run_store.status = "completed"

C31_NodeEventBeforeCompleted ==
    [][(~god_mode /\ trace # << >>
        /\ run_store.status # "completed" /\ run_store'.status = "completed") =>
          \E i \in DOMAIN trace : run_store.active_node = trace[i].node]_vars

\* C32: after a step the history holds, in the order of the exchange, every
\* prompt sent to the model and every response received in that step: the
\* system and user prompt, then, when the tool sub-loop asked twice, the
\* first response and the tool result records, then the final response
C32_HistoryHoldsEveryExchange ==
    (exec.pc = "invoked" /\ Len(trace) = 1 /\ "out" \in DOMAIN trace[1]) =>
        LET out == trace[1].out
            history == exec.values.messages
        IN  /\ Len(history) = 2 + Len(out.sent) + 1
            /\ SubSeq(history, 3, 2 + Len(out.sent)) = out.sent
            /\ history[Len(history)] = out.response

\* C33: in a run without modify the iteration count equals the number of
\* generic steps executed so far, each adding exactly 1, and an evaluator
\* step, forced or not, writes neither the count nor the draft nor the topic
C33_CountIsGenericSteps ==
    LET values == IF god_mode THEN checkpoint.values ELSE exec.values
        generic == {i \in DOMAIN trace : ~trace[i].critic}
    IN  (checkpoint.id - 1 - Len(trace) <= 0 /\ exec.pc # "raised") =>
            /\ values.iteration_count = Cardinality(generic)
            /\ \A i \in DOMAIN trace :
                  trace[i].critic =>
                      DOMAIN trace[i].update \cap
                          {"iteration_count", "current_draft", "input_topic"} = {}

\* the context an auto-pilot run holds after its first n steps
RECURSIVE ValuesAfter(_)
ValuesAfter(n) ==
    IF n = 0 THEN initial_state ELSE ApplyUpdate(ValuesAfter(n - 1), trace[n].update)

\* C34: a generic step selects one of three prompts from the context it
\* runs on: original work on the topic for an empty draft (and no feedback),
\* a revision for a draft without feedback, and, whenever the feedback log
\* is not empty, an update that carries the accumulated feedback
C34_PromptSelection ==
    ~god_mode =>
        \A i \in DOMAIN trace :
            ("critic" \in DOMAIN trace[i] /\ ~trace[i].critic) =>
                LET state == ValuesAfter(i - 1)
                    prompt == trace[i].update.messages[2].text
                IN  /\ prompt \in {"work-on-topic", "review-and-improve",
                                   "improve-with-feedback"}
                    /\ (state.current_draft = "" /\ state.feedback_history = << >>)
                          => prompt = "work-on-topic"
                    /\ (state.current_draft # "" /\ state.feedback_history = << >>)
                          => prompt = "review-and-improve"
                    /\ state.feedback_history # << >> => prompt = "improve-with-feedback"

\* C35: RunStore.update and RunStore.delete for a run id the store lacks
\* change nothing; update for a stored run changes only the named fields of
\* that run's record; delete and create touch no other run's record; a
\* created record has status pending
C35_RunStoreFrame ==
    [][Len(trace') > Len(trace) =>
          LET call == trace'[Len(trace')]
              id == call.run_id
          IN  /\ \A other \in DOMAIN run_store \ {id} :
                    other \in DOMAIN run_store' /\ run_store'[other] = run_store[other]
              /\ DOMAIN run_store' \subseteq DOMAIN run_store \cup {id}
              /\ (call.op \in {"update", "delete"} /\ id \notin DOMAIN run_store)
                    => run_store' = run_store
              /\ (call.op = "update" /\ id \in DOMAIN run_store) =>
                    /\ id \in DOMAIN run_store'
                    /\ DOMAIN run_store'[id] = DOMAIN run_store[id]
                    /\ \A k \in DOMAIN run_store[id] :
                          run_store'[id][k] = IF k \in DOMAIN call.updates
                                              THEN call.updates[k] ELSE run_store[id][k]
              /\ call.op = "delete" => id \notin DOMAIN run_store'
              /\ call.op = "create" =>
                    /\ id \in DOMAIN run_store'
                    /\ run_store'[id].status = "pending"
                    /\ run_store'[id].run_id = id]_vars

\* run-a was created and updated, then an update was made for a run id the
\* store lacks: run-a's record is the only one and keeps its topic
C35_Witness ==
    /\ Len(trace) = 3
    /\ trace[2] = [op |-> "update", run_id |-> "run-a",
                   updates |-> [status |-> "completed", final_draft |-> "Result text",
                                active_node |-> "done"]]
    /\ trace[3].op = "update" /\ trace[3].run_id = "ghost-run"
    /\ DOMAIN run_store = {"run-a"}
    /\ run_store["run-a"].status = "completed"
    /\ run_store["run-a"].input_topic = "Topic"

\* C36: a supervised run whose every pause is answered with approve takes
\* the node steps an auto-pilot run of the same blueprint takes under the
\* same model responses, from the same entry node and along the same routing,
\* holds the same context after them, has the same node pending, and is
\* recorded as completed only where the auto-pilot run has reached END
C36_SupervisedAsAutoPilot ==
    LET auto == AutoPilotFrom(1, EntryNodeId(blueprint), initial_state)
    IN  (blueprint.nodes # << >> /\ (~god_mode \/ checkpoint.id >= 1)) =>
            /\ auto.ok
            /\ god_mode =>
                  /\ checkpoint.values = auto.values
                  /\ checkpoint.next = IF auto.next = END THEN << >> ELSE << auto.next >>
                  /\ run_store.status = "completed" => auto.next = END
                  /\ (exec.pc = "done" /\ tasks = EmptyBag /\ auto.next = END
                      /\ run_store.error = None)
                        => run_store.status = "completed"
            /\ (~god_mode /\ exec.pc \in {"executing", "returned"}) =>
                  /\ exec.values = auto.values
                  /\ exec.node = IF auto.next = END THEN None ELSE auto.next

\* the supervised run of the routed blueprint has run the reviewer, which
\* approved, and the publisher, both after an approve, and is completed
C36_Witness ==
    /\ god_mode /\ blueprint = ROUTED_BLUEPRINT
    /\ Len(trace) = 2 /\ trace[1].node = "reviewer" /\ trace[2].node = "publisher"
    /\ run_store.status = "completed" /\ tasks = EmptyBag
    /\ checkpoint.next = << >> /\ checkpoint.values.current_draft = "draft"

\* C37: a supervised run is recorded as completed only when its traversal
\* has reached END: no node is pending in its latest checkpoint
C37_CompletedOnlyAtEnd ==
    (god_mode /\ run_store.status = "completed") => checkpoint.next = << >>

\* C38: while a resumed invoke is executing a node step of the run, the
\* state query does not report the run as paused
C38_NotPausedWhileStepInFlight ==
    (\E task \in BagToSet(tasks) : task.pc = "executing") =>
        ~get_god_mode_state(RunId).paused

====
